---- MODULE Spec2Model ----
(***************************************************************************)
(* A model of the ABI decoder of pagovitsa/abi-coder (src/lib/decoder.js,  *)
(* src/lib/utils.js).                                                      *)
(*                                                                         *)
(* Representation of JavaScript values:                                    *)
(*   - a string is a sequence of one-character strings;                    *)
(*   - a Buffer is a sequence of bytes 0..255, index 0 of the Buffer being *)
(*     element 1 of the sequence;                                          *)
(*   - a BigInt is a record [neg, mag], mag the big-endian base-256 digits *)
(*     of its magnitude without leading zeros (TLC integers have 32 bits,  *)
(*     a word has 256); the decimal string value.toString() of a BigInt is *)
(*     represented by the BigInt itself (the rendering is injective);      *)
(*   - a Number used as an offset or a length is an integer below Huge,    *)
(*     or Huge for everything from 2^29 on;                                *)
(*   - an optional property is a sequence of zero or one values;           *)
(*   - a thrown exception is a result record whose err is not "none".      *)
(***************************************************************************)
EXTENDS Integers, Sequences, FiniteSets, TLC

RECURSIVE decodeParameter(_, _, _)
RECURSIVE decodeArray(_, _, _)
RECURSIVE decodeTuple(_, _, _)
RECURSIVE isDynamicType(_)

(***************************************************************************)
(* Strings                                                                 *)
(***************************************************************************)
Min(a, b) == IF a <= b THEN a ELSE b

Max(a, b) == IF a >= b THEN a ELSE b

Digits == <<"0", "1", "2", "3", "4", "5", "6", "7", "8", "9">>

HexDigits == Digits \o <<"a", "b", "c", "d", "e", "f">>

UpperHexDigits == Digits \o <<"A", "B", "C", "D", "E", "F">>

\* The characters matched by \s and removed by trim() that a one-character
\* TLA+ string can denote.
WhiteSpace == {" ", "\t", "\n", "\f", "\r"}

IsDigit(c) == \E i \in 1..10 : Digits[i] = c

DigitVal(c) == (CHOOSE i \in 1..10 : Digits[i] = c) - 1

\* String.prototype.startsWith
StartsWith(s, p) == Len(s) >= Len(p) /\ SubSeq(s, 1, Len(p)) = p

\* String.prototype.includes
Includes(s, p) == \E i \in 1..(Len(s) - Len(p) + 1) : SubSeq(s, i, i + Len(p) - 1) = p

\* String.prototype.indexOf for a single character: 0-based, -1 when absent
IndexOf(s, c) ==
  IF \E i \in 1..Len(s) : s[i] = c
  THEN (CHOOSE i \in 1..Len(s) : s[i] = c /\ \A j \in 1..(i - 1) : s[j] # c) - 1
  ELSE -1

\* String.prototype.slice(a, b) and Buffer.prototype.slice(a, b): 0-based,
\* end exclusive, negative indices count from the end, both clamped.
SliceIndex(n, len) == IF n < 0 THEN Max(len + n, 0) ELSE Min(n, len)

Slice(s, a, b) == SubSeq(s, SliceIndex(a, Len(s)) + 1, SliceIndex(b, Len(s)))

SliceFrom(s, a) == SubSeq(s, SliceIndex(a, Len(s)) + 1, Len(s))

\* s without the leading elements that are in space
TrimStartOf(s, space) ==
  IF \A i \in 1..Len(s) : s[i] \in space THEN <<>>
  ELSE SubSeq(s,
              CHOOSE i \in 1..Len(s) : s[i] \notin space /\ \A j \in 1..(i - 1) : s[j] \in space,
              Len(s))

\* s without the trailing elements that are in space
TrimEndOf(s, space) ==
  IF \A i \in 1..Len(s) : s[i] \in space THEN <<>>
  ELSE SubSeq(s, 1,
              CHOOSE i \in 1..Len(s) : s[i] \notin space /\ \A j \in (i + 1)..Len(s) : s[j] \in space)

TrimOf(s, space) == TrimEndOf(TrimStartOf(s, space), space)

\* String.prototype.trim
Trim(s) == TrimOf(s, WhiteSpace)

TrimStart(s) == TrimStartOf(s, WhiteSpace)

\* The k-th element of a finite set of integers, in increasing order
Nth(set, k) == CHOOSE i \in set : Cardinality({j \in set : j < i}) = k - 1

\* String.prototype.split(/\s+/): the pieces between maximal runs of white
\* space (an empty first or last piece when the string starts or ends with one).
\* WordEnd is where the piece starting at i ends.
WordEnd(s, i) ==
  CHOOSE j \in i..Len(s) :
    (\A x \in i..j : s[x] \notin WhiteSpace) /\ (j = Len(s) \/ s[j + 1] \in WhiteSpace)

Split(s) ==
  LET starts == { i \in 1..Len(s) : s[i] \notin WhiteSpace /\ (i = 1 \/ s[i - 1] \in WhiteSpace) }
      words == [r \in 1..Cardinality(starts) |->
                  SubSeq(s, Nth(starts, r), WordEnd(s, Nth(starts, r)))]
      first == IF s = <<>> \/ s[1] \in WhiteSpace THEN <<<<>>>> ELSE <<>>
      last == IF s # <<>> /\ s[Len(s)] \in WhiteSpace THEN <<<<>>>> ELSE <<>>
  IN  first \o words \o last

\* Template literal `${n}` for a non-negative integer
RECURSIVE IntToStr(_)
IntToStr(n) == IF n < 10 THEN <<Digits[n + 1]>> ELSE IntToStr(n \div 10) \o <<Digits[(n % 10) + 1]>>

\* parseInt(s): leading white space skipped, then the longest run of decimal
\* digits; NaN when there is none. (No input of the model carries a sign.)
RECURSIVE DigitsValue(_, _)
DigitsValue(s, acc) ==
  IF s # <<>> /\ IsDigit(s[1]) THEN DigitsValue(Tail(s), acc * 10 + DigitVal(s[1])) ELSE acc

parseInt(s) ==
  LET t == TrimStart(s)
  IN  IF t # <<>> /\ IsDigit(t[1]) THEN [nan |-> FALSE, n |-> DigitsValue(t, 0)]
      ELSE [nan |-> TRUE, n |-> 0]

\* parseInt(s) || d : NaN and 0 are falsy
ParseIntOr(s, d) == LET p == parseInt(s) IN IF p.nan \/ p.n = 0 THEN d ELSE p.n

STR_0x == <<"0", "x">>
STR_bool == <<"b", "o", "o", "l">>
STR_address == <<"a", "d", "d", "r", "e", "s", "s">>
STR_bytes == <<"b", "y", "t", "e", "s">>
STR_string == <<"s", "t", "r", "i", "n", "g">>
STR_uint == <<"u", "i", "n", "t">>
STR_int == <<"i", "n", "t">>
STR_tuple == <<"t", "u", "p", "l", "e">>
STR_field == <<"f", "i", "e", "l", "d">>
STR_undefined == <<"u", "n", "d", "e", "f", "i", "n", "e", "d">>

\* type.match(/^tuple\((.+)\)$/): the captured group, or none
TupleMatch(s) ==
  IF StartsWith(s, STR_tuple \o <<"(">>) /\ Len(s) >= 8 /\ s[Len(s)] = ")"
  THEN <<SubSeq(s, 7, Len(s) - 1)>>
  ELSE <<>>

(***************************************************************************)
(* BigInt and Number                                                       *)
(***************************************************************************)
\* b without its leading zero digits
StripZeros(b) ==
  IF \A i \in 1..Len(b) : b[i] = 0 THEN <<>>
  ELSE SubSeq(b, CHOOSE i \in 1..Len(b) : b[i] # 0 /\ \A j \in 1..(i - 1) : b[j] = 0, Len(b))

Zeros(n) == [i \in 1..n |-> 0]

\* digit sequences a and b of equal length compared from position k on: -1, 0, 1
CmpFrom(a, b, k) ==
  IF \A i \in k..Len(a) : a[i] = b[i] THEN 0
  ELSE LET i == CHOOSE i \in k..Len(a) : a[i] # b[i] /\ \A j \in k..(i - 1) : a[j] = b[j]
       IN  IF a[i] < b[i] THEN -1 ELSE 1

CmpDigits(a, b) == CmpFrom(a, b, 1)

CmpMag(a, b) ==
  IF Len(a) < Len(b) THEN -1
  ELSE IF Len(a) > Len(b) THEN 1
  ELSE CmpDigits(a, b)

\* a - b on digit sequences of equal length, a >= b: position i borrows
\* exactly when the digits after it are less in a than in b
SubDigits(a, b) ==
  [i \in 1..Len(a) |->
     (a[i] - b[i] - (IF CmpFrom(a, b, i + 1) < 0 THEN 1 ELSE 0) + 256) % 256]

SubMag(a, b) == StripZeros(SubDigits(a, Zeros(Len(a) - Len(b)) \o b))

BigNat(mag) == [neg |-> FALSE, mag |-> StripZeros(mag)]

\* 1n << BigInt(bits), bits >= 0
Pow2(bits) == BigNat(<<2 ^ (bits % 8)>> \o Zeros(bits \div 8))

BigZero == BigNat(<<>>)

BigOne == BigNat(<<1>>)

BigNeg(a) == IF a.mag = <<>> THEN a ELSE [neg |-> ~a.neg, mag |-> a.mag]

\* a - b for a, b >= 0
BigSub(a, b) ==
  IF CmpMag(a.mag, b.mag) >= 0 THEN BigNat(SubMag(a.mag, b.mag))
  ELSE [neg |-> TRUE, mag |-> SubMag(b.mag, a.mag)]

\* a < b
BigLess(a, b) ==
  IF a.neg /\ ~b.neg THEN TRUE
  ELSE IF ~a.neg /\ b.neg THEN FALSE
  ELSE IF a.neg THEN CmpMag(a.mag, b.mag) > 0
  ELSE CmpMag(a.mag, b.mag) < 0

\* The small non-negative integer n as a BigInt
NatDigits(n) == StripZeros(<<(n \div 16777216) % 256, (n \div 65536) % 256, (n \div 256) % 256, n % 256>>)

BigOf(n) == IF n < 0 THEN [neg |-> TRUE, mag |-> NatDigits(-n)] ELSE BigNat(NatDigits(n))

\* Every Number from 2^29 on
Huge == 2 ^ 29

\* The number with at most four digits d
DigitsToNat(d) ==
  LET p == Zeros(4 - Len(d)) \o d
  IN  p[1] * 16777216 + p[2] * 65536 + p[3] * 256 + p[4]

\* Number(value) for the decimal string of a non-negative BigInt
NumberOf(v) ==
  IF Len(v.mag) < 4 \/ (Len(v.mag) = 4 /\ v.mag[1] < 32) THEN DigitsToNat(v.mag) ELSE Huge

\* a + b and a * b on Numbers
Plus(a, b) == Min(a + b, Huge)

Times(a, b) == IF a = 0 \/ b = 0 THEN 0 ELSE IF a >= (Huge \div b) THEN Huge ELSE a * b

(***************************************************************************)
(* Buffers and hex strings (src/lib/utils.js, Node's Buffer)               *)
(***************************************************************************)
WORD == 32

HexVal(c) ==
  IF \E i \in 1..16 : HexDigits[i] = c THEN (CHOOSE i \in 1..16 : HexDigits[i] = c) - 1
  ELSE IF \E i \in 1..16 : UpperHexDigits[i] = c
       THEN (CHOOSE i \in 1..16 : UpperHexDigits[i] = c) - 1
  ELSE -1

\* Buffer.from(hex, 'hex'): one byte per pair of hex digits, in either letter
\* case, up to the first pair that is not two hex digits; an odd last
\* character is dropped.
IsHexPair(hex, k) == HexVal(hex[2 * k - 1]) >= 0 /\ HexVal(hex[2 * k]) >= 0

BufferFromHex(hex) ==
  LET pairs == Len(hex) \div 2
      n == IF \A k \in 1..pairs : IsHexPair(hex, k) THEN pairs
           ELSE (CHOOSE k \in 1..pairs :
                   ~IsHexPair(hex, k) /\ \A j \in 1..(k - 1) : IsHexPair(hex, j)) - 1
  IN  [k \in 1..n |-> HexVal(hex[2 * k - 1]) * 16 + HexVal(hex[2 * k])]

\* buffer.toString('hex')
ToHexString(buffer) ==
  [i \in 1..(2 * Len(buffer)) |->
     IF i % 2 = 1 THEN HexDigits[(buffer[(i + 1) \div 2] \div 16) + 1]
     ELSE HexDigits[(buffer[i \div 2] % 16) + 1]]

\* hexToBuffer without the removal of the prefix
hexToBufferWithPrefix(hex) == BufferFromHex(hex)

hexToBuffer(hex) == BufferFromHex(IF StartsWith(hex, STR_0x) THEN SliceFrom(hex, 2) ELSE hex)

bufferToHex(buffer) == STR_0x \o ToHexString(buffer)

\* BigInt('0x' + hex) for the hex digits of a non-empty slice
BigFromBytes(bytes) == BigNat(bytes)

\* The read [from, to) is not wholly inside the buffer
Outside(buffer, from, to) == from < 0 \/ to > Len(buffer)

(***************************************************************************)
(* Results of the decoders: the returned {value, nextOffset}, or the error *)
(* thrown. oob records whether some read made on the way was not wholly    *)
(* inside the buffer (a history value, not a value of the program).        *)
(***************************************************************************)
NoValue == [t |-> "none"]

Return(value, nextOffset, oob) ==
  [err |-> "none", value |-> value, nextOffset |-> nextOffset, oob |-> oob]

Throw(kind) == [err |-> kind, value |-> NoValue, nextOffset |-> 0, oob |-> FALSE]

\* Values
NumV(big) == [t |-> "num", neg |-> big.neg, mag |-> big.mag]

BoolV(b) == [t |-> "bool", b |-> b]

HexV(s) == [t |-> "hex", s |-> s]

TextV(s) == [t |-> "text", s |-> s]

\* A string of characters (a signature)
StrV(s) == [t |-> "str", s |-> s]

NullV == [t |-> "null"]

\* A JavaScript array: items, followed by rep copies of of[1]
ListV(items) == [t |-> "list", items |-> items, rep |-> 0, of |-> <<>>]

RunV(items, rep, v) == [t |-> "list", items |-> items, rep |-> rep, of |-> <<v>>]

\* A JavaScript object: a function from its keys
ObjV(f) == [t |-> "obj", f |-> f]

EmptyObj == [k \in {} |-> NoValue]

Put(f, key, v) == [k \in (DOMAIN f) \cup {key} |-> IF k = key THEN v ELSE f[k]]

\* Types as the callers pass them: a type string, or an ABI parameter object
TS(s) == [js |-> "string", s |-> s]

TObj(type, name, components) ==
  [js |-> "object", type |-> type, name |-> name, components |-> components]

IsObj(type) == type.js = "object"

(***************************************************************************)
(* Atomic decoders (src/lib/decoder.js:91-188)                             *)
(***************************************************************************)
decodeBool(buffer, offset) ==
  IF Outside(buffer, offset + 31, offset + 32) THEN Throw("BufferOutOfRange")
  ELSE Return(BoolV(buffer[offset + 32] # 0), Plus(offset, 32), FALSE)

decodeUint(buffer, offset, bits) ==
  LET slice == Slice(buffer, offset, offset + 32)
      oob == Outside(buffer, offset, offset + 32)
      maxValue == BigSub(Pow2(bits), BigOne)
  IN  IF bits <= 64 /\ oob THEN Throw("BufferOutOfRange")
      ELSE LET value == IF bits <= 64
                        THEN BigFromBytes(Slice(buffer, offset + 24, offset + 32))
                        ELSE IF slice # <<>> THEN BigFromBytes(slice) ELSE BigZero
           IN  IF BigLess(maxValue, value) THEN Throw("ValueTooLarge")
               ELSE Return(NumV(value), Plus(offset, 32), oob)

decodeInt(buffer, offset, bits) ==
  LET slice == Slice(buffer, offset, offset + 32)
      oob == Outside(buffer, offset, offset + 32)
      raw == BigFromBytes(slice)
      signBit == Pow2(bits - 1)
      maxUint == Pow2(bits)
      value == IF ~BigLess(raw, signBit) THEN BigSub(raw, maxUint) ELSE raw
      minValue == BigNeg(Pow2(bits - 1))
      maxValue == BigSub(Pow2(bits - 1), BigOne)
  IN  IF slice = <<>> THEN Throw("BigIntSyntax")
      ELSE IF BigLess(value, minValue) \/ BigLess(maxValue, value) THEN Throw("ValueOutOfRange")
      ELSE Return(NumV(value), Plus(offset, 32), oob)

decodeAddress(buffer, offset) ==
  LET addressBytes == Slice(buffer, offset + 12, offset + 32)
  IN  Return(HexV(STR_0x \o ToHexString(addressBytes)), Plus(offset, 32),
             Outside(buffer, offset + 12, offset + 32))

\* size is the result of parseInt: slice(offset, offset + NaN) is slice(offset, 0)
decodeFixedBytes(buffer, offset, size) ==
  LET end == IF size.nan THEN 0 ELSE offset + size.n
      slice == Slice(buffer, offset, end)
  IN  Return(HexV(STR_0x \o ToHexString(slice)), Plus(offset, 32), Outside(buffer, offset, end))

decodeBytesAt(buffer, offset) ==
  LET lengthResult == decodeUint(buffer, offset, 256)
      length == NumberOf(lengthResult.value)
      dataOffset == Plus(offset, 32)
      value == STR_0x \o ToHexString(Slice(buffer, dataOffset, Plus(dataOffset, length)))
      paddedLength == Times((length + 31) \div 32, 32)
  IN  Return(HexV(value), Plus(dataOffset, paddedLength),
             lengthResult.oob \/ Outside(buffer, dataOffset, Plus(dataOffset, length)))

decodeBytes(buffer, offset) == decodeBytesAt(buffer, offset)

\* buffer.toString('utf8'): the code points of the text, U+FFFD for every
\* maximal ill-formed subsequence.
Replacement == 65533

IsCont(bytes, i, lo, hi) == Len(bytes) >= i /\ bytes[i] >= lo /\ bytes[i] <= hi

\* The number of leading bytes of b that are below 128
AsciiRun(b) ==
  IF \A i \in 1..Len(b) : b[i] < 128 THEN Len(b)
  ELSE (CHOOSE i \in 1..Len(b) : b[i] >= 128 /\ \A j \in 1..(i - 1) : b[j] < 128) - 1

RECURSIVE Utf8Decode(_)
Utf8Decode(b) ==
  IF b = <<>> THEN <<>>
  ELSE IF AsciiRun(b) > 0
  THEN SubSeq(b, 1, AsciiRun(b)) \o Utf8Decode(SubSeq(b, AsciiRun(b) + 1, Len(b)))
  ELSE LET c == b[1]
           lo2 == IF c = 224 THEN 160 ELSE IF c = 240 THEN 144 ELSE 128
           hi2 == IF c = 237 THEN 159 ELSE IF c = 244 THEN 143 ELSE 191
           need == IF c >= 194 /\ c <= 223 THEN 1
                   ELSE IF c >= 224 /\ c <= 239 THEN 2
                   ELSE IF c >= 240 /\ c <= 244 THEN 3
                   ELSE -1
           got == IF need < 1 \/ ~IsCont(b, 2, lo2, hi2) THEN 0
                  ELSE IF need < 2 \/ ~IsCont(b, 3, 128, 191) THEN 1
                  ELSE IF need < 3 \/ ~IsCont(b, 4, 128, 191) THEN 2
                  ELSE 3
           cp == IF need < 0 \/ got < need THEN Replacement
                 ELSE IF need = 1 THEN (c % 32) * 64 + (b[2] % 64)
                 ELSE IF need = 2 THEN (c % 16) * 4096 + (b[2] % 64) * 64 + (b[3] % 64)
                 ELSE (c % 8) * 262144 + (b[2] % 64) * 4096 + (b[3] % 64) * 64 + (b[4] % 64)
       IN  <<cp>> \o Utf8Decode(SubSeq(b, 2 + got, Len(b)))

\* The code points trim() removes
TextSpace ==
  {9, 10, 11, 12, 13, 32, 160, 5760, 8232, 8233, 8239, 8287, 12288, 65279} \cup (8192..8202)

\* value.replace(/\0/g, '')
RemoveNul(s) == SelectSeq(s, LAMBDA c : c # 0)

decodeString(buffer, offset) ==
  LET bytesResult == decodeBytes(buffer, offset)
      hex == SliceFrom(bytesResult.value.s, 2)
      text == Utf8Decode(BufferFromHex(hex))
      value == TrimOf(RemoveNul(text), TextSpace)
  IN  Return(TextV(value), bytesResult.nextOffset, bytesResult.oob)

(***************************************************************************)
(* Type strings (src/lib/decoder.js:305-374)                               *)
(***************************************************************************)
\* The {type, name} pushed for the text of one component
ComponentOf(text, count) ==
  LET parts == Split(Trim(text))
      name == IF Len(parts) >= 2 /\ parts[2] # <<>> THEN parts[2]
              ELSE STR_field \o IntToStr(count)
  IN  TObj(parts[1], <<name>>, <<>>)

\* parseTupleComponents reads componentStr once from left to right. What its
\* loop holds when it reaches character i (1-based) is given here by position:
\* depth is the number of opening brackets before i less the closing ones
DepthAt(s, i) ==
  Cardinality({j \in 1..(i - 1) : s[j] = "(" \/ s[j] = "["})
    - Cardinality({j \in 1..(i - 1) : s[j] = ")" \/ s[j] = "]"})

\* The commas that end a component
Commas(s) == { i \in 1..Len(s) : s[i] = "," /\ DepthAt(s, i) = 0 }

\* Where the text of the component holding character i starts
ComponentStart(s, i) ==
  IF \E c \in Commas(s) : c < i
  THEN (CHOOSE c \in Commas(s) : c < i /\ \A d \in Commas(s) : d < i => d <= c) + 1
  ELSE 1

\* inType is true until the first space at depth 0 that follows some text of
\* its component; that space is the only character left out of current, as
\* inType is never set again
Spaces(s) ==
  { i \in 1..Len(s) :
      s[i] = " " /\ DepthAt(s, i) = 0 /\ Trim(SubSeq(s, ComponentStart(s, i), i - 1)) # <<>> }

Skipped(s) == IF Spaces(s) = {} THEN {} ELSE {Nth(Spaces(s), 1)}

\* current when the component between positions from and to ends
CurrentOf(s, from, to) ==
  IF \E d \in Skipped(s) : from <= d /\ d <= to
  THEN SubSeq(s, from, Nth(Spaces(s), 1) - 1) \o SubSeq(s, Nth(Spaces(s), 1) + 1, to)
  ELSE SubSeq(s, from, to)

\* The texts between the commas, in order, the last one included
Currents(s) ==
  [k \in 1..(Cardinality(Commas(s)) + 1) |->
     CurrentOf(s,
               IF k = 1 THEN 1 ELSE Nth(Commas(s), k - 1) + 1,
               IF k > Cardinality(Commas(s)) THEN Len(s) ELSE Nth(Commas(s), k) - 1)]

\* A component is pushed for every text that is not blank
PushedTexts(texts) ==
  LET kept == { k \in 1..Len(texts) : Trim(texts[k]) # <<>> }
  IN  [r \in 1..Cardinality(kept) |-> ComponentOf(texts[Nth(kept, r)], r - 1)]

parseTupleComponents(componentStr) == PushedTexts(Currents(componentStr))

\* type is a type string or an ABI parameter object with a non-empty type
TypeStrOf(type) == IF IsObj(type) THEN type.type ELSE type.s

\* Whether some component parsed from a tuple type string is dynamic
SomeDynamic(components) == \E k \in 1..Len(components) : isDynamicType(TS(components[k].type))

isDynamicType(type) ==
  LET typeStr == TypeStrOf(type)
      match == TupleMatch(typeStr)
  IN  IF typeStr = STR_string \/ typeStr = STR_bytes THEN TRUE
      ELSE IF Includes(typeStr, <<"[", "]">>) THEN TRUE
      ELSE IF StartsWith(typeStr, STR_tuple)
      THEN IF IsObj(type) /\ type.components # <<>>
           THEN \E k \in 1..Len(type.components[1]) : isDynamicType(type.components[1][k])
           ELSE IF match # <<>> THEN SomeDynamic(parseTupleComponents(match[1]))
           ELSE FALSE
      ELSE FALSE

(***************************************************************************)
(* Arrays (src/lib/decoder.js:190-244)                                     *)
(*                                                                         *)
(* An iteration of an element loop whose reads all start at or after the   *)
(* end of the buffer gives the same outcome as every later iteration, so   *)
(* a run of more than RunLimit such iterations is evaluated once and kept  *)
(* as a run (RunV). An array of Huge length can never be returned: the     *)
(* loop exhausts the memory of the process.                                *)
(***************************************************************************)
RunLimit == 4

\* The loop over static elements: remaining iterations from currentOffset on.
\* StaticElement is the rest of an iteration once its element r is decoded.
RECURSIVE StaticElements(_, _, _, _, _, _)
StaticElement(baseType, buffer, currentOffset, remaining, results, oob, r) ==
  IF r.err # "none" THEN r
  ELSE IF remaining > RunLimit
          /\ (currentOffset >= Len(buffer) \/ r.nextOffset = currentOffset)
  THEN IF remaining >= Huge - Len(buffer) THEN Throw("Exhausted")
       ELSE Return(RunV(results, remaining, r.value),
                   Plus(currentOffset, Times(remaining, r.nextOffset - currentOffset)),
                   TRUE)
  ELSE StaticElements(baseType, buffer, r.nextOffset, remaining - 1,
                      Append(results, r.value), oob \/ r.oob)

StaticElements(baseType, buffer, currentOffset, remaining, results, oob) ==
  IF remaining <= 0 THEN Return(ListV(results), currentOffset, oob)
  ELSE StaticElement(baseType, buffer, currentOffset, remaining, results, oob,
                     decodeParameter(TS(baseType), buffer, currentOffset))

\* The loop over dynamic elements: iterations i .. arrayLength - 1, the
\* offsets being read from staticOffset on and resolved against base.
\* DynamicSlot is the rest of an iteration once its offset word is read,
\* DynamicElement the rest once its element r is decoded.
RECURSIVE DynamicElements(_, _, _, _, _, _, _, _)
DynamicElement(baseType, buffer, staticOffset, base, i, arrayLength, results, oob, r) ==
  IF r.err # "none" THEN r
  ELSE IF arrayLength - i > RunLimit /\ Plus(staticOffset, Times(i, 32)) >= Len(buffer)
  THEN IF arrayLength >= Huge THEN Throw("Exhausted")
       ELSE Return(RunV(results, arrayLength - i, r.value),
                   Plus(staticOffset, Times(arrayLength, 32)), TRUE)
  ELSE DynamicElements(baseType, buffer, staticOffset, base, i + 1, arrayLength,
                       Append(results, r.value), oob \/ r.oob)

DynamicSlot(baseType, buffer, staticOffset, base, i, arrayLength, results, oob, offsetResult) ==
  DynamicElement(baseType, buffer, staticOffset, base, i, arrayLength, results,
                 oob \/ offsetResult.oob,
                 decodeParameter(TS(baseType), buffer,
                                 Plus(base, NumberOf(offsetResult.value))))

DynamicElements(baseType, buffer, staticOffset, base, i, arrayLength, results, oob) ==
  IF i >= arrayLength
  THEN Return(ListV(results), Plus(staticOffset, Times(arrayLength, 32)), oob)
  ELSE DynamicSlot(baseType, buffer, staticOffset, base, i, arrayLength, results, oob,
                   decodeUint(buffer, Plus(staticOffset, Times(i, 32)), 256))

\* The array once its length word is read at dataOffset
ArrayElements(baseType, buffer, offset, isFixedSize, fixedSize, dynamic, oob, dataOffset, lengthResult) ==
  LET \* a NaN length ends the loop at once
      arrayLength == IF isFixedSize THEN (IF fixedSize.nan THEN 0 ELSE fixedSize.n)
                     ELSE NumberOf(lengthResult.value)
      currentOffset == IF isFixedSize THEN dataOffset ELSE lengthResult.nextOffset
      allOob == oob \/ (~isFixedSize /\ lengthResult.oob)
  IN  IF isDynamicType(TS(baseType))
      THEN DynamicElements(baseType, buffer, currentOffset,
                           IF dynamic THEN (offset \div 32) * 32 ELSE 0,
                           0, arrayLength, <<>>, allOob)
      ELSE StaticElements(baseType, buffer, currentOffset, arrayLength, <<>>, allOob)

\* The array once its own offset word is read
ArrayData(baseType, buffer, offset, isFixedSize, fixedSize, dynamic, oob, dataOffset) ==
  ArrayElements(baseType, buffer, offset, isFixedSize, fixedSize, dynamic, oob, dataOffset,
                decodeUint(buffer, dataOffset, 256))

ArrayAt(baseType, buffer, offset, isFixedSize, fixedSize, dynamic, offsetResult) ==
  ArrayData(baseType, buffer, offset, isFixedSize, fixedSize, dynamic,
            dynamic /\ offsetResult.oob,
            IF dynamic THEN NumberOf(offsetResult.value) ELSE offset)

\* The array of a type split at its first bracket
ArrayOf(type, baseType, arraySpec, buffer, offset) ==
  ArrayAt(baseType, buffer, offset, arraySpec # <<"[", "]">>,
          parseInt(Slice(arraySpec, 1, -1)), isDynamicType(TS(type)),
          decodeUint(buffer, offset, 256))

decodeArray(type, buffer, offset) ==
  ArrayOf(type, Slice(type, 0, IndexOf(type, "[")), SliceFrom(type, IndexOf(type, "[")),
          buffer, offset)

(***************************************************************************)
(* Tuples (src/lib/decoder.js:246-303)                                     *)
(***************************************************************************)
FieldName(component, i) ==
  IF component.name # <<>> /\ component.name[1] # <<>> THEN component.name[1]
  ELSE STR_field \o IntToStr(i)

\* Second pass: the dynamic fields, in order. TupleDynamicField is the rest
\* of an iteration once its field is decoded.
RECURSIVE TupleSecondPass(_, _, _, _, _, _)
TupleDynamicField(buffer, dynamicOffsets, k, result, nextOffset, oob, decoded) ==
  IF decoded.err # "none" THEN decoded
  ELSE TupleSecondPass(buffer, dynamicOffsets, k + 1,
                       Put(result, dynamicOffsets[k].fieldName, decoded.value),
                       nextOffset, oob \/ decoded.oob)

TupleSecondPass(buffer, dynamicOffsets, k, result, nextOffset, oob) ==
  IF k > Len(dynamicOffsets) THEN Return(ObjV(result), nextOffset, oob)
  ELSE TupleDynamicField(buffer, dynamicOffsets, k, result, nextOffset, oob,
                         decodeParameter(dynamicOffsets[k].component, buffer,
                                         dynamicOffsets[k].offset))

\* First pass: component i (0-based) at currentOffset. TupleOffsetSlot is
\* the rest of an iteration once the offset word of a dynamic component is
\* read, TupleStaticField the rest once a static component is decoded.
RECURSIVE TupleFirstPass(_, _, _, _, _, _, _, _)
TupleOffsetSlot(components, buffer, offset, i, currentOffset, result, dynamicOffsets, oob, offsetResult) ==
  TupleFirstPass(components, buffer, offset, i + 1, Plus(currentOffset, 32), result,
                 Append(dynamicOffsets,
                        [index |-> i, offset |-> Plus(offset, NumberOf(offsetResult.value)),
                         fieldName |-> FieldName(components[i + 1], i),
                         component |-> components[i + 1]]),
                 oob \/ offsetResult.oob)

TupleStaticField(components, buffer, offset, i, currentOffset, result, dynamicOffsets, oob, decoded) ==
  IF decoded.err # "none" THEN decoded
  ELSE TupleFirstPass(components, buffer, offset, i + 1, decoded.nextOffset,
                      Put(result, FieldName(components[i + 1], i), decoded.value),
                      dynamicOffsets, oob \/ decoded.oob)

TupleFirstPass(components, buffer, offset, i, currentOffset, result, dynamicOffsets, oob) ==
  IF i >= Len(components)
  THEN TupleSecondPass(buffer, dynamicOffsets, 1, result, currentOffset, oob)
  ELSE IF isDynamicType(components[i + 1])
  THEN TupleOffsetSlot(components, buffer, offset, i, currentOffset, result, dynamicOffsets,
                       oob, decodeUint(buffer, currentOffset, 256))
  ELSE TupleStaticField(components, buffer, offset, i, currentOffset, result, dynamicOffsets,
                        oob, decodeParameter(components[i + 1], buffer, currentOffset))

decodeTuple(type, buffer, offset) ==
  IF IsObj(type) /\ type.components # <<>>
  THEN TupleFirstPass(type.components[1], buffer, offset, 0, offset, EmptyObj, <<>>, FALSE)
  ELSE IF ~IsObj(type)
  THEN LET match == TupleMatch(type.s)
       IN  IF match = <<>> THEN Throw("InvalidTupleFormat")
           ELSE TupleFirstPass(parseTupleComponents(match[1]), buffer, offset, 0, offset,
                               EmptyObj, <<>>, FALSE)
  ELSE Throw("InvalidTupleType")

(***************************************************************************)
(* Parameters (src/lib/decoder.js:10-88)                                   *)
(***************************************************************************)
decodeParameter(type, buffer, offset) ==
  LET typeStr == TypeStrOf(type)
  IN  IF Includes(typeStr, <<"[">>) THEN decodeArray(typeStr, buffer, offset)
      ELSE IF StartsWith(typeStr, STR_tuple) THEN decodeTuple(type, buffer, offset)
      ELSE IF typeStr = STR_bool THEN decodeBool(buffer, offset)
      ELSE IF typeStr = STR_address THEN decodeAddress(buffer, offset)
      ELSE IF typeStr = STR_bytes THEN decodeBytes(buffer, offset)
      ELSE IF typeStr = STR_string THEN decodeString(buffer, offset)
      ELSE IF StartsWith(typeStr, STR_uint)
      THEN decodeUint(buffer, offset, ParseIntOr(SliceFrom(typeStr, 4), 256))
      ELSE IF StartsWith(typeStr, STR_int)
      THEN decodeInt(buffer, offset, ParseIntOr(SliceFrom(typeStr, 3), 256))
      ELSE IF StartsWith(typeStr, STR_bytes) /\ Len(typeStr) > 5
      THEN decodeFixedBytes(buffer, offset, parseInt(SliceFrom(typeStr, 5)))
      ELSE Throw("UnsupportedType")

\* The loop of decodeParameters from parameter i (0-based) on. cursors
\* records the value of staticOffset at which each parameter was taken (a
\* history value). ParameterAt is the rest of an iteration once its value r
\* is decoded, DynamicParameter the rest once the offset word is read.
RECURSIVE ParametersLoop(_, _, _, _, _, _, _)
ParameterAt(types, buffer, i, staticOffset, results, cursors, oob, r) ==
  IF r.err # "none"
  THEN [err |-> r.err, value |-> NoValue, cursors |-> Append(cursors, staticOffset),
        oob |-> FALSE]
  ELSE ParametersLoop(types, buffer, i + 1, staticOffset + 32, Append(results, r.value),
                      Append(cursors, staticOffset), oob \/ r.oob)

DynamicParameter(types, buffer, i, staticOffset, results, cursors, oob, offsetResult) ==
  ParameterAt(types, buffer, i, staticOffset, results, cursors, oob \/ offsetResult.oob,
              decodeParameter(types[i + 1], buffer, NumberOf(offsetResult.value)))

ParametersLoop(types, buffer, i, staticOffset, results, cursors, oob) ==
  IF i >= Len(types)
  THEN [err |-> "none", value |-> ListV(results), cursors |-> cursors, oob |-> oob]
  ELSE IF isDynamicType(types[i + 1])
  THEN DynamicParameter(types, buffer, i, staticOffset, results, cursors, oob,
                        decodeUint(buffer, staticOffset, 256))
  ELSE ParameterAt(types, buffer, i, staticOffset, results, cursors, oob,
                   decodeParameter(types[i + 1], buffer, staticOffset))

\* decodeParameters with the guard "if (!data)", which lets '0x' through
decodeParametersNoPrefixGuard(types, data) ==
  IF data = <<>> \/ data[1] = <<>>
  THEN [err |-> "none",
        value |-> ListV([k \in 1..Len(types) |-> NullV]),
        cursors |-> <<>>, oob |-> FALSE]
  ELSE ParametersLoop(types, hexToBuffer(data[1]), 0, 0, <<>>, <<>>, FALSE)

\* data is absent (<<>>) or a string (<<s>>)
decodeParameters(types, data) ==
  IF data = <<>> \/ data[1] = <<>> \/ data[1] = STR_0x
  THEN [err |-> "none",
        value |-> ListV([k \in 1..Len(types) |-> NullV]),
        cursors |-> <<>>, oob |-> FALSE]
  ELSE ParametersLoop(types, hexToBuffer(data[1]), 0, 0, <<>>, <<>>, FALSE)

(***************************************************************************)
(* Event logs (src/lib/decoder.js:376-413)                                 *)
(***************************************************************************)
\* An event input {name, type, indexed, components}
EventInput(type, name, indexed, components) ==
  [type |-> type, name |-> name, indexed |-> indexed, components |-> components]

\* The property key a name is stored under: an absent name is the key 'undefined'
KeyOf(name) == IF name = <<>> THEN STR_undefined ELSE name[1]

\* The loop over the indexed parameters from i (0-based) on. IndexedValue is
\* the rest of an iteration once the topic is decoded.
RECURSIVE IndexedLoop(_, _, _, _)
IndexedValue(indexedParams, topics, i, logArgs, r) ==
  IF r.err # "none" THEN [err |-> r.err, args |-> logArgs]
  ELSE IndexedLoop(indexedParams, topics, i + 1,
                   Put(logArgs, KeyOf(indexedParams[i + 1].name), r.value))

IndexedLoop(indexedParams, topics, i, logArgs) ==
  IF i >= Len(indexedParams) THEN [err |-> "none", args |-> logArgs]
  ELSE IF i + 2 > Len(topics) \/ topics[i + 2] = <<>>
  THEN IndexedLoop(indexedParams, topics, i + 1, logArgs)
  ELSE IF isDynamicType(TS(indexedParams[i + 1].type))
  THEN IndexedLoop(indexedParams, topics, i + 1,
                   Put(logArgs, KeyOf(indexedParams[i + 1].name), HexV(topics[i + 2])))
  ELSE IndexedValue(indexedParams, topics, i, logArgs,
                    decodeParameter(TS(indexedParams[i + 1].type),
                                    hexToBuffer(topics[i + 2]), 0))

\* result.args[nonIndexedParams[i].name] = decodedData[i], from k (1-based) on
RECURSIVE StoreData(_, _, _, _)
StoreData(nonIndexedParams, decodedData, k, logArgs) ==
  IF k > Len(nonIndexedParams) THEN logArgs
  ELSE StoreData(nonIndexedParams, decodedData, k + 1,
                 Put(logArgs, KeyOf(nonIndexedParams[k].name), decodedData[k]))

LogResult(eventAbi, logArgs) ==
  [err |-> "none", value |-> [t |-> "log", name |-> eventAbi.name, args |-> logArgs]]

\* The log once the data are decoded
LogWithData(eventAbi, nonIndexedParams, logArgs, decodedData) ==
  IF decodedData.err # "none" THEN [err |-> decodedData.err, value |-> NoValue]
  ELSE LogResult(eventAbi, StoreData(nonIndexedParams, decodedData.value.items, 1, logArgs))

\* The log once the topics are decoded
LogAfterTopics(eventAbi, data, nonIndexedParams, indexed) ==
  IF indexed.err # "none" THEN [err |-> indexed.err, value |-> NoValue]
  ELSE IF Len(nonIndexedParams) > 0 /\ data # <<>> /\ data[1] # <<>> /\ data[1] # STR_0x
  THEN LogWithData(eventAbi, nonIndexedParams, indexed.args,
                   decodeParameters([k \in 1..Len(nonIndexedParams) |->
                                       TS(nonIndexedParams[k].type)], data))
  ELSE LogResult(eventAbi, indexed.args)

decodeLog(eventAbi, data, topics) ==
  LogAfterTopics(eventAbi, data, SelectSeq(eventAbi.inputs, LAMBDA input : ~input.indexed),
                 IndexedLoop(SelectSeq(eventAbi.inputs, LAMBDA input : input.indexed),
                             topics, 0, EmptyObj))

(***************************************************************************)
(* The type model and the layout of spec sections 3, 4.1 and 4.3. The      *)
(* encoder is not among the sources: what follows is written from the      *)
(* specification and produces the inputs the decoder is checked on.        *)
(***************************************************************************)
UintT(bits) == [k |-> "uint", bits |-> bits]

IntT(bits) == [k |-> "int", bits |-> bits]

BoolT == [k |-> "bool"]

AddressT == [k |-> "address"]

FixedBytesT(n) == [k |-> "fixedbytes", n |-> n]

BytesT == [k |-> "bytes"]

StringT == [k |-> "string"]

FixedArrayT(elem, n) == [k |-> "fixedarray", elem |-> elem, n |-> n]

DynamicArrayT(elem) == [k |-> "dynamicarray", elem |-> elem]

\* names[i] is the optional name of field i
TupleT(names, fields) == [k |-> "tuple", names |-> names, fields |-> fields]

IsArray(ty) == ty.k \in {"fixedarray", "dynamicarray"}

\* Invariant D1
RECURSIVE is_dynamic(_)
is_dynamic(ty) ==
  IF ty.k \in {"bytes", "string", "dynamicarray"} THEN TRUE
  ELSE IF ty.k = "fixedarray" THEN is_dynamic(ty.elem)
  ELSE IF ty.k = "tuple" THEN \E i \in 1..Len(ty.fields) : is_dynamic(ty.fields[i])
  ELSE FALSE

RECURSIVE SumSeq(_)
SumSeq(q) == IF q = <<>> THEN 0 ELSE q[1] + SumSeq(Tail(q))

RECURSIVE Concat(_)
Concat(q) == IF q = <<>> THEN <<>> ELSE q[1] \o Concat(Tail(q))

\* encoded_size of a static type, and head_width
RECURSIVE encoded_size(_)
encoded_size(ty) ==
  IF ty.k = "fixedarray" THEN ty.n * encoded_size(ty.elem)
  ELSE IF ty.k = "tuple" THEN SumSeq([i \in 1..Len(ty.fields) |-> encoded_size(ty.fields[i])])
  ELSE WORD

head_width(ty) == IF is_dynamic(ty) THEN WORD ELSE encoded_size(ty)

\* The type string of a type: tuples as tuple(f1,f2,...), a named field as
\* 'type name'
RECURSIVE TypeString(_)
TypeString(ty) ==
  IF ty.k = "uint" THEN STR_uint \o IntToStr(ty.bits)
  ELSE IF ty.k = "int" THEN STR_int \o IntToStr(ty.bits)
  ELSE IF ty.k = "bool" THEN STR_bool
  ELSE IF ty.k = "address" THEN STR_address
  ELSE IF ty.k = "fixedbytes" THEN STR_bytes \o IntToStr(ty.n)
  ELSE IF ty.k = "bytes" THEN STR_bytes
  ELSE IF ty.k = "string" THEN STR_string
  ELSE IF ty.k = "fixedarray" THEN TypeString(ty.elem) \o <<"[">> \o IntToStr(ty.n) \o <<"]">>
  ELSE IF ty.k = "dynamicarray" THEN TypeString(ty.elem) \o <<"[", "]">>
  ELSE STR_tuple \o <<"(">>
         \o Concat([i \in 1..Len(ty.fields) |->
                      (IF i > 1 THEN <<",">> ELSE <<>>) \o TypeString(ty.fields[i])
                        \o (IF ty.names[i] = <<>> THEN <<>> ELSE <<" ">> \o ty.names[i][1])])
         \o <<")">>

\* The ABI parameter object of a type (spec section 6): a tuple is 'tuple'
\* with components, an array of tuples 'tuple[..]' with the tuple's components
RECURSIVE BaseOf(_)
BaseOf(ty) == IF IsArray(ty) THEN BaseOf(ty.elem) ELSE ty

RECURSIVE ObjectTypeString(_)
ObjectTypeString(ty) ==
  IF ty.k = "fixedarray" THEN ObjectTypeString(ty.elem) \o <<"[">> \o IntToStr(ty.n) \o <<"]">>
  ELSE IF ty.k = "dynamicarray" THEN ObjectTypeString(ty.elem) \o <<"[", "]">>
  ELSE IF ty.k = "tuple" THEN STR_tuple
  ELSE TypeString(ty)

RECURSIVE AbiParameter(_, _)
AbiParameter(ty, name) ==
  LET base == BaseOf(ty)
  IN  TObj(ObjectTypeString(ty), name,
           IF base.k = "tuple"
           THEN <<[i \in 1..Len(base.fields) |-> AbiParameter(base.fields[i], base.names[i])]>>
           ELSE <<>>)

\* The key of field i (1-based) of a tuple value
FieldKey(ty, i) == IF ty.names[i] = <<>> THEN STR_field \o IntToStr(i - 1) ELSE ty.names[i][1]

\* A 32-byte big-endian word
WordOfNat(n) == Zeros(WORD - Len(NatDigits(n))) \o NatDigits(n)

WordOfBig(v) ==
  IF v.neg THEN SubMag(Pow2(256).mag, v.mag) ELSE Zeros(WORD - Len(v.mag)) \o v.mag

PadRight(bytes) == bytes \o Zeros(((Len(bytes) + WORD - 1) \div WORD) * WORD - Len(bytes))

\* UTF-8 of a text whose code points are below 2048
Utf8Encode(text) ==
  Concat([i \in 1..Len(text) |->
            IF text[i] < 128 THEN <<text[i]>>
            ELSE <<192 + (text[i] \div 64), 128 + (text[i] % 64)>>])

\* Spec section 4.3: encode of one value, and of a parameter list
RECURSIVE encode_value(_, _)
RECURSIVE encode(_, _)
encode_value(ty, v) ==
  IF ty.k \in {"uint", "int"} THEN WordOfBig(v)
  ELSE IF ty.k = "bool" THEN WordOfNat(IF v.b THEN 1 ELSE 0)
  ELSE IF ty.k = "address" THEN Zeros(12) \o BufferFromHex(SliceFrom(v.s, 2))
  ELSE IF ty.k = "fixedbytes" THEN PadRight(BufferFromHex(SliceFrom(v.s, 2)))
  ELSE IF ty.k = "bytes"
  THEN LET payload == BufferFromHex(SliceFrom(v.s, 2))
       IN  WordOfNat(Len(payload)) \o PadRight(payload)
  ELSE IF ty.k = "string"
  THEN LET payload == Utf8Encode(v.s)
       IN  WordOfNat(Len(payload)) \o PadRight(payload)
  ELSE IF ty.k = "fixedarray" THEN encode([i \in 1..ty.n |-> ty.elem], v.items)
  ELSE IF ty.k = "dynamicarray"
  THEN WordOfNat(Len(v.items)) \o encode([i \in 1..Len(v.items) |-> ty.elem], v.items)
  ELSE encode(ty.fields, [i \in 1..Len(ty.fields) |-> v.f[FieldKey(ty, i)]])

encode(types, values) ==
  LET n == Len(types)
      head_size == SumSeq([i \in 1..n |-> head_width(types[i])])
      tails == [i \in 1..n |->
                  IF is_dynamic(types[i]) THEN encode_value(types[i], values[i]) ELSE <<>>]
      heads == [i \in 1..n |->
                  IF is_dynamic(types[i])
                  THEN WordOfNat(head_size + SumSeq([j \in 1..(i - 1) |-> Len(tails[j])]))
                  ELSE encode_value(types[i], values[i])]
  IN  Concat(heads) \o Concat(tails)

\* Spec section 4.1: the canonical string of a type, and the signature of a
\* definition with the given name and parameter types
RECURSIVE canonical(_)
canonical(ty) ==
  IF ty.k = "fixedarray" THEN canonical(ty.elem) \o <<"[">> \o IntToStr(ty.n) \o <<"]">>
  ELSE IF ty.k = "dynamicarray" THEN canonical(ty.elem) \o <<"[", "]">>
  ELSE IF ty.k = "tuple"
  THEN <<"(">> \o Concat([i \in 1..Len(ty.fields) |->
                            (IF i > 1 THEN <<",">> ELSE <<>>) \o canonical(ty.fields[i])])
         \o <<")">>
  ELSE TypeString(ty)

signature(name, types) == name \o canonical(TupleT([i \in 1..Len(types) |-> <<>>], types))

(***************************************************************************)
(* Signatures and selectors (src/lib/utils.js:11-62)                       *)
(***************************************************************************)
\* The characters of a signature and their codes: letters, digits and the
\* punctuation of type strings
LowerCase ==
  <<"a", "b", "c", "d", "e", "f", "g", "h", "i", "j", "k", "l", "m",
    "n", "o", "p", "q", "r", "s", "t", "u", "v", "w", "x", "y", "z">>

UpperCase ==
  <<"A", "B", "C", "D", "E", "F", "G", "H", "I", "J", "K", "L", "M",
    "N", "O", "P", "Q", "R", "S", "T", "U", "V", "W", "X", "Y", "Z">>

Punctuation == <<" ", "(", ")", ",", "[", "]", "_">>

PunctuationCodes == <<32, 40, 41, 44, 91, 93, 95>>

PlaceIn(q, c) == CHOOSE i \in 1..Len(q) : q[i] = c

charCodeAt(c) ==
  IF IsDigit(c) THEN 47 + PlaceIn(Digits, c)
  ELSE IF \E i \in 1..Len(LowerCase) : LowerCase[i] = c THEN 96 + PlaceIn(LowerCase, c)
  ELSE IF \E i \in 1..Len(UpperCase) : UpperCase[i] = c THEN 64 + PlaceIn(UpperCase, c)
  ELSE PunctuationCodes[PlaceIn(Punctuation, c)]

\* toUtf8Bytes of a string of these characters: one byte each
toUtf8Bytes(str) == [i \in 1..Len(str) |-> charCodeAt(str[i])]

\* keccak256 comes from the ethers package: the hex string of 32 bytes, a
\* fixed function of the bytes hashed. This one mixes the bytes with their
\* number.
keccak256(bytes) ==
  bufferToHex([i \in 1..WORD |->
                 IF bytes = <<>> THEN i
                 ELSE (bytes[((7 * i) % Len(bytes)) + 1] * i + Len(bytes)) % 256])

\* Array.prototype.join(',')
Join(q) == Concat([i \in 1..Len(q) |-> (IF i > 1 THEN <<",">> ELSE <<>>) \o q[i]])

\* getBaseCanonicalType without the normalisation of uint and int
getBaseCanonicalTypeAsWritten(type) == type

getBaseCanonicalType(type) ==
  IF type = STR_tuple THEN STR_tuple
  ELSE IF type = STR_uint THEN STR_uint \o <<"2", "5", "6">>
  ELSE IF type = STR_int THEN STR_int \o <<"2", "5", "6">>
  ELSE IF type = STR_bytes /\ ~Includes(type, STR_bytes) THEN STR_bytes
  ELSE type

\* getCanonicalType with the name of the parameter kept in the signature
getCanonicalTypeWithName(param) ==
  param.type \o (IF param.name = <<>> THEN <<>> ELSE <<" ">> \o param.name[1])

getCanonicalType(param) ==
  IF Includes(param.type, <<"[">>)
  THEN getBaseCanonicalType(SubSeq(param.type, 1, IndexOf(param.type, "[")))
         \o SliceFrom(param.type, IndexOf(param.type, "["))
  ELSE getBaseCanonicalType(param.type)

getFunctionSignature(func) ==
  func.name \o <<"(">>
    \o Join([i \in 1..Len(func.inputs) |-> getCanonicalType(func.inputs[i])]) \o <<")">>

getEventSignature(event) ==
  event.name \o <<"(">>
    \o Join([i \in 1..Len(event.inputs) |-> getCanonicalType(event.inputs[i])]) \o <<")">>

getFunctionSelector(func) == Slice(keccak256(toUtf8Bytes(getFunctionSignature(func))), 0, 10)

getEventSelector(event) == keccak256(toUtf8Bytes(getEventSignature(event)))

(***************************************************************************)
(* Inputs                                                                  *)
(***************************************************************************)
\* Longest parameter list built from the pool, longest array value
MaxParams == 2

MaxArrayLen == 2

Num(n) == NumV(BigOf(n))

Hex(bytes) == HexV(bufferToHex(bytes))

AddressA ==
  <<116, 45, 53, 204, 102, 52, 192, 83, 41, 37, 163, 184, 216, 233, 238, 216, 155, 122, 109, 230>>

AddressB ==
  <<116, 45, 53, 204, 102, 52, 192, 83, 41, 37, 163, 184, 216, 233, 238, 216, 155, 122, 109, 231>>

\* 10^18
Ether == <<13, 224, 182, 179, 167, 100, 0, 0>>

AllFF == [i \in 1..WORD |-> 255]

NameA == <<"a">>

NameB == <<"b">>

Sample(ty, v) == [ty |-> ty, v |-> v]

\* The array value <<1, ..., n>>
Counting(n) == ListV([i \in 1..n |-> Num(i)])

StaticPair == TupleT(<<<<>>, <<>>>>, <<UintT(256), BoolT>>)

DynamicPair == TupleT(<<<<>>, <<>>>>, <<UintT(256), BytesT>>)

NamedPair == TupleT(<<<<NameA>>, <<NameB>>>>, <<UintT(256), BytesT>>)

ArrayPair == TupleT(<<<<>>, <<>>>>, <<UintT(256), DynamicArrayT(UintT(256))>>)

InnerPair == TupleT(<<<<>>, <<>>>>, <<BytesT, UintT(256)>>)

NestedPair == TupleT(<<<<>>, <<>>>>, <<UintT(256), InnerPair>>)

PairValue(ty, x, y) == ObjV(Put(Put(EmptyObj, FieldKey(ty, 1), x), FieldKey(ty, 2), y))

\* The samples longer parameter lists are built from
Pool ==
  << Sample(UintT(256), Num(7)), Sample(BoolT, BoolV(TRUE)), Sample(BytesT, Hex(<<18, 52>>)),
     Sample(FixedArrayT(UintT(256), 2), Counting(2)),
     Sample(StaticPair, PairValue(StaticPair, Num(5), BoolV(TRUE))),
     Sample(DynamicPair, PairValue(DynamicPair, Num(5), Hex(<<18, 52>>))) >>

AtomSamples ==
  << Sample(UintT(8), Num(255)), Sample(UintT(8), Num(7)),
     Sample(UintT(64), NumV(BigNat(<<1, 0, 0, 0, 5>>))),
     Sample(UintT(256), Num(0)), Sample(UintT(256), NumV(BigNat(Ether))),
     Sample(UintT(256), NumV(BigNat(AllFF))),
     Sample(IntT(8), Num(-1)), Sample(IntT(8), Num(127)), Sample(IntT(8), Num(-128)),
     Sample(IntT(256), Num(-1)), Sample(IntT(256), Num(5)),
     Sample(BoolT, BoolV(FALSE)),
     Sample(AddressT, Hex(AddressA)),
     Sample(FixedBytesT(4), Hex(<<18, 52, 86, 120>>)), Sample(FixedBytesT(32), Hex(AllFF)),
     Sample(BytesT, Hex(<<>>)), Sample(BytesT, Hex(AllFF \o <<1>>)),
     Sample(StringT, TextV(<<65, 66>>)), Sample(StringT, TextV(<<>>)),
     Sample(StringT, TextV(<<72, 105, 32, 233>>)),
     Sample(StringT, TextV(<<32, 65, 0, 66, 32>>)) >>

ArraySamples ==
  [n \in 1..MaxArrayLen |-> Sample(FixedArrayT(UintT(256), n), Counting(n))]
    \o [n \in 1..(MaxArrayLen + 1) |-> Sample(DynamicArrayT(UintT(256)), Counting(n - 1))]
    \o << Sample(FixedArrayT(StringT, 2), ListV(<<TextV(<<65>>), TextV(<<66>>)>>)),
          Sample(DynamicArrayT(BytesT), ListV(<<Hex(<<18>>)>>)),
          Sample(FixedArrayT(BoolT, 2), ListV(<<BoolV(TRUE), BoolV(FALSE)>>)) >>

TupleSamples ==
  << Sample(NamedPair, PairValue(NamedPair, Num(5), Hex(<<18, 52>>))),
     Sample(ArrayPair, PairValue(ArrayPair, Num(5), Counting(2))),
     Sample(NestedPair,
            PairValue(NestedPair, Num(5), PairValue(InnerPair, Hex(<<18, 52>>), Num(9)))) >>

Samples == Pool \o AtomSamples \o ArraySamples \o TupleSamples

\* A parameter list is chosen by the indices of its samples: none, any one
\* sample, or up to MaxParams samples of the pool
Selections ==
  {<<>>} \cup { <<i>> : i \in 1..Len(Samples) }
    \cup UNION { [1..n -> 1..Len(Pool)] : n \in 2..MaxParams }

ListOf(sel) == [k \in 1..Len(sel) |-> Samples[sel[k]]]

\* How the caller writes the types: as type strings or as ABI parameter objects
Forms == {"string", "object"}

Written(ty, form) == IF form = "string" THEN TS(TypeString(ty)) ELSE AbiParameter(ty, <<>>)

\* The data of a call: the encoding of the list with cut bytes missing at
\* its end, or absent, '' or '0x'
Cuts == {0, 1, WORD, WORD + 8}

DataChoices ==
  { [kind |-> "encoded", cut |-> c] : c \in Cuts }
    \cup { [kind |-> k, cut |-> 0] : k \in {"absent", "empty", "0x"} }

Encoded(list) ==
  encode([i \in 1..Len(list) |-> list[i].ty], [i \in 1..Len(list) |-> list[i].v])

DataOf(list, choice) ==
  IF choice.kind = "absent" THEN <<>>
  ELSE IF choice.kind = "empty" THEN <<<<>>>>
  ELSE IF choice.kind = "0x" THEN <<STR_0x>>
  ELSE <<bufferToHex(SubSeq(Encoded(list), 1, Len(Encoded(list)) - choice.cut))>>

\* A call of decodeParameters; sty and vals are the types and the values of
\* the list, choice the data chosen
ParametersCall(list, form, choice) ==
  [types |-> [i \in 1..Len(list) |-> Written(list[i].ty, form)],
   data |-> DataOf(list, choice),
   sty |-> [i \in 1..Len(list) |-> list[i].ty],
   vals |-> [i \in 1..Len(list) |-> list[i].v],
   choice |-> choice]

\* The widths of the integer types, and the words an integer of width bits
\* is decoded from
Widths == { 8 * i : i \in 1..32 }

WordOfMag(mag) == Zeros(WORD - Len(mag)) \o mag

Complement(mag) == WordOfMag(SubMag(Pow2(256).mag, mag))

WordsFor(bits) ==
  { WordOfMag(<<>>), WordOfMag(<<1>>), AllFF,
    WordOfMag(BigSub(Pow2(bits - 1), BigOne).mag),
    WordOfMag(Pow2(bits - 1).mag),
    WordOfMag(BigSub(Pow2(bits), BigOne).mag),
    WordOfMag(SubMag(Pow2(bits).mag, <<2>>)),
    Complement(Pow2(bits - 1).mag),
    Complement(Pow2(bits - 1).mag \o <<>>),
    Complement(BigSub(Pow2(bits), BigOne).mag),
    WordOfMag(<<1>> \o Zeros(31)), WordOfMag(<<128>> \o Zeros(31)) }
    \cup (IF bits < 256 THEN {WordOfMag(Pow2(bits).mag), Complement(Pow2(bits).mag)} ELSE {})

\* The types isDynamicType is asked about
TypeCatalogue ==
  [i \in 1..Len(Samples) |-> Samples[i].ty]
    \o << FixedArrayT(BytesT, 3), FixedArrayT(DynamicArrayT(UintT(8)), 2),
          DynamicArrayT(FixedArrayT(UintT(8), 2)), FixedArrayT(FixedArrayT(StringT, 2), 2),
          FixedArrayT(StaticPair, 2), FixedArrayT(DynamicPair, 2), DynamicArrayT(StaticPair),
          TupleT(<<<<>>>>, <<FixedArrayT(StringT, 2)>>),
          TupleT(<<<<>>, <<>>>>, <<StaticPair, AddressT>>),
          TupleT(<<<<NameA>>, <<NameB>>>>, <<BytesT, UintT(256)>>) >>

\* The events decodeLog is called with: each input is a type, a name (the
\* empty name for an input written without one) and whether it is indexed
EventParam(ty, name, indexed) == [ty |-> ty, name |-> name, indexed |-> indexed]

NameFrom == <<"f", "r", "o", "m">>

NameTo == <<"t", "o">>

NameValue == <<"v", "a", "l", "u", "e">>

NameLevel == <<"l", "e", "v", "e", "l">>

NameOn == <<"o", "n">>

NameTag == <<"t", "a", "g">>

NamePair == <<"p", "a", "i", "r">>

NameNote == <<"n", "o", "t", "e">>

NameList == <<"l", "i", "s", "t">>

Single == TupleT(<<<<>>>>, <<UintT(256)>>)

Events ==
  << [name |-> "Transfer",
      params |-> << EventParam(AddressT, NameFrom, TRUE), EventParam(AddressT, NameTo, TRUE),
                    EventParam(UintT(256), NameValue, FALSE) >>],
     [name |-> "Levels",
      params |-> << EventParam(UintT(8), NameLevel, TRUE), EventParam(BoolT, NameOn, TRUE),
                    EventParam(FixedBytesT(32), NameTag, TRUE) >>],
     [name |-> "Packed",
      params |-> << EventParam(Single, NamePair, TRUE),
                    EventParam(UintT(256), NameValue, FALSE) >>],
     [name |-> "Noted",
      params |-> << EventParam(StringT, NameNote, TRUE),
                    EventParam(UintT(256), NameValue, FALSE) >>],
     [name |-> "Filled",
      params |-> << EventParam(StaticPair, NamePair, FALSE),
                    EventParam(UintT(256), NameValue, FALSE) >>],
     [name |-> "Hashed",
      params |-> << EventParam(DynamicPair, NamePair, TRUE),
                    EventParam(FixedArrayT(StringT, 2), NameList, TRUE),
                    EventParam(UintT(256), NameValue, FALSE) >>],
     [name |-> "Bare",
      params |-> << EventParam(AddressT, <<>>, TRUE),
                    EventParam(UintT(256), <<>>, FALSE) >>] >>

\* The event ABI of an event, its types written in the given form
EventAbi(event, form) ==
  [name |-> event.name,
   inputs |-> [k \in 1..Len(event.params) |->
                 LET p == event.params[k]
                     w == Written(p.ty, form)
                 IN  EventInput(IF form = "string" THEN w.s ELSE w.type,
                                IF p.name = <<>> THEN <<>> ELSE <<p.name>>, p.indexed,
                                IF form = "string" THEN <<>> ELSE w.components)]]

\* topics[0] of a log, and the topics after it: a topic is absent (<<>>) or
\* the hex string of a word
Signatures == {bufferToHex(WordOfNat(1)), bufferToHex(AllFF)}

TopicPool ==
  << <<>>, bufferToHex(WordOfNat(1)), bufferToHex(Zeros(12) \o AddressA), bufferToHex(AllFF) >>

\* At most MaxIndexed topics follow topics[0]
MaxIndexed == 3

TopicLists == UNION { [1..m -> 1..Len(TopicPool)] : m \in 0..MaxIndexed }

\* The data of a log: absent, '0x', the encoding of [7] or that of [(5, true), 7]
PairAndValue ==
  << Sample(StaticPair, PairValue(StaticPair, Num(5), BoolV(TRUE))), Sample(UintT(256), Num(7)) >>

LogData ==
  << <<>>, <<STR_0x>>, <<bufferToHex(WordOfNat(7))>>, <<bufferToHex(Encoded(PairAndValue))>> >>

IndexedOf(event) == SelectSeq(event.params, LAMBDA p : p.indexed)

NonIndexedOf(event) == SelectSeq(event.params, LAMBDA p : ~p.indexed)

\* A call of decodeLog; event is the event described, sig is topics[0] and
\* rest the topics after it, at most one for each indexed parameter
LogCall(event, form, sig, rest, d) ==
  [eventAbi |-> EventAbi(event, form),
   data |-> LogData[d],
   topics |-> <<sig>> \o [k \in 1..Len(rest) |-> TopicPool[rest[k]]],
   event |-> event,
   form |-> form]

\* The definitions the signature operations are called with, as the items
\* of a JSON ABI: a parameter is a type and whether its integer base type is
\* written bare ('uint' for uint256, 'int' for int256)
SigParam(ty, bare) == [ty |-> ty, bare |-> bare]

SigPool ==
  << SigParam(UintT(256), FALSE), SigParam(UintT(256), TRUE), SigParam(IntT(8), FALSE),
     SigParam(BytesT, FALSE), SigParam(FixedArrayT(IntT(256), 3), TRUE),
     SigParam(FixedArrayT(DynamicArrayT(UintT(256)), 2), TRUE),
     SigParam(StaticPair, FALSE), SigParam(DynamicPair, FALSE), SigParam(NamedPair, FALSE) >>

SigLists == UNION { [1..n -> 1..Len(SigPool)] : n \in 0..MaxParams }

DefinitionNames == {<<"t", "r", "a", "n", "s", "f", "e", "r">>, <<"f">>}

\* The type string of a parameter in a JSON ABI
RECURSIVE AbiTypeString(_, _)
AbiTypeString(ty, bare) ==
  IF ty.k = "fixedarray"
  THEN AbiTypeString(ty.elem, bare) \o <<"[">> \o IntToStr(ty.n) \o <<"]">>
  ELSE IF ty.k = "dynamicarray" THEN AbiTypeString(ty.elem, bare) \o <<"[", "]">>
  ELSE IF bare /\ ty = UintT(256) THEN STR_uint
  ELSE IF bare /\ ty = IntT(256) THEN STR_int
  ELSE ObjectTypeString(ty)

\* The definition with the given name and parameters; names[k] is the
\* optional name of parameter k and flags[k] its indexed flag
Definition(name, params, names, flags) ==
  [name |-> name,
   inputs |-> [k \in 1..Len(params) |->
                 EventInput(AbiTypeString(params[k].ty, params[k].bare), names[k], flags[k],
                            AbiParameter(params[k].ty, <<>>).components)]]

\* The name of parameter k
ParamName(k) == NameA \o IntToStr(k)

\* A call of a signature operation: parameter k is named ParamName(k) and
\* the first parameter is indexed
SignatureCall(name, sel) ==
  [def |-> Definition(name, [k \in 1..Len(sel) |-> SigPool[sel[k]]],
                      [k \in 1..Len(sel) |-> <<ParamName(k)>>],
                      [k \in 1..Len(sel) |-> k = 1]),
   name |-> name,
   params |-> [k \in 1..Len(sel) |-> SigPool[sel[k]]]]

\* The component lists parseTupleComponents is called with: the fields of a
\* tuple, each a type with an optional name
FieldTypes == <<UintT(256), AddressT, DynamicArrayT(UintT(256)), StaticPair, NamedPair>>

FieldNames == << <<>>, <<<<"a", "m", "o", "u", "n", "t">>>>, <<NameTo>> >>

FieldLists ==
  UNION { [1..n -> (1..Len(FieldTypes)) \X (1..Len(FieldNames))] : n \in 1..MaxParams }

\* The tuple whose fields are those of the list, and the text between the
\* parentheses of its type string
TupleOf(list) ==
  TupleT([i \in 1..Len(list) |-> FieldNames[list[i][2]]],
         [i \in 1..Len(list) |-> FieldTypes[list[i][1]]])

ComponentsCall(list) ==
  [componentStr |-> TupleMatch(TypeString(TupleOf(list)))[1], tuple |-> TupleOf(list)]

\* The type strings decodeParameter is called with: strings that are no
\* type (a width or a length that is no number, an unmatched bracket or
\* parenthesis, an unknown base token) and, beside them, two that are
Malformed ==
  << <<"u", "i", "n", "t", "x">>,
     <<"i", "n", "t", "x">>,
     <<"b", "y", "t", "e", "s", "x">>,
     <<"u", "i", "n", "t", "2", "5", "6", "[", "a", "]">>,
     <<"u", "i", "n", "t", "2", "5", "6", "[", "2">>,
     <<"t", "u", "p", "l", "e", "(", "u", "i", "n", "t", "2", "5", "6">>,
     <<"f", "o", "o">>,
     <<"f", "o", "o", "[", "]">> >>

WellFormed == << STR_uint \o <<"2", "5", "6">>, STR_bool >>

TypeStrings == Malformed \o WellFormed

Buffers == << WordOfNat(7), WordOfNat(1) \o WordOfNat(2), AllFF >>

\* The hex strings and the buffers of the calls of hexToBuffer and
\* bufferToHex: at most MaxBytes bytes, the digits in either letter case
MaxBytes == 2

HexChars == <<"0", "a", "A", "F">>

HexStrings == UNION { [1..(2 * n) -> {HexChars[i] : i \in 1..Len(HexChars)}] : n \in 0..MaxBytes }

Bytes == {0, 10, 175, 255}

ByteBuffers == UNION { [1..n -> Bytes] : n \in 0..MaxBytes }

\* The arrays decodeArray is called with directly: the array samples and
\* arrays of arrays. The buffer is the encoding of the one-parameter list
\* holding the array; offset is 0, the head slot of the parameter, or one
\* word further
Grid == ListV(<<Counting(2), Counting(2), Counting(2)>>)

NestedSamples ==
  << Sample(FixedArrayT(FixedArrayT(UintT(256), 2), 3), Grid),
     Sample(DynamicArrayT(FixedArrayT(UintT(256), 2)), Grid),
     Sample(FixedArrayT(DynamicArrayT(UintT(256)), 3), Grid) >>

DirectArrays == ArraySamples \o NestedSamples

ArrayCall(sample, offset) ==
  [type |-> TypeString(sample.ty), buffer |-> Encoded(<<sample>>), offset |-> offset,
   sty |-> sample.ty, val |-> sample.v]

(***************************************************************************)
(* The decoder object and its callers: a caller invokes one operation of   *)
(* the decoder at a time and takes its result. pc is the caller's          *)
(* position, op the operation invoked, call its arguments (with the types  *)
(* and values they were written from) and ret what it returned or threw.   *)
(***************************************************************************)
VARIABLES pc, op, call, ret, cache

vars == <<pc, op, call, ret, cache>>

NoArgs == [none |-> TRUE]

NoResult == [err |-> "pending"]

\* constructor: this.cache = new Map()
Init ==
  /\ pc = "idle"
  /\ op = "none"
  /\ call = NoArgs
  /\ ret = NoResult
  /\ cache = EmptyObj

\* A decodeParameters that keeps its last result in the cache and answers
\* from it
DecodeParametersCached ==
  \E sel \in Selections : \E form \in Forms : \E choice \in DataChoices :
    /\ pc = "idle"
    /\ choice.cut = 0 \/ (Len(sel) = 1 /\ choice.cut < Len(Encoded(ListOf(sel))))
    /\ LET a == ParametersCall(ListOf(sel), form, choice)
       IN  /\ call' = a
           /\ ret' = IF STR_0x \in DOMAIN cache THEN cache[STR_0x]
                      ELSE decodeParameters(call'.types, call'.data)
    /\ cache' = Put(cache, STR_0x, ret')
    /\ op' = "decodeParameters"
    /\ pc' = "returned"

DecodeParameters ==
  \E sel \in Selections : \E form \in Forms : \E choice \in DataChoices :
    /\ pc = "idle"
    /\ choice.cut = 0 \/ (Len(sel) = 1 /\ choice.cut < Len(Encoded(ListOf(sel))))
    /\ LET a == ParametersCall(ListOf(sel), form, choice)
       IN  /\ call' = a
           /\ ret' = decodeParameters(call'.types, call'.data)
    /\ op' = "decodeParameters"
    /\ pc' = "returned"
    /\ UNCHANGED cache

DecodeParameter ==
  \E t \in 1..Len(TypeStrings) : \E b \in 1..Len(Buffers) :
    /\ pc = "idle"
    /\ call' = [type |-> TS(TypeStrings[t]), buffer |-> Buffers[b], offset |-> 0,
                malformed |-> t <= Len(Malformed)]
    /\ ret' = decodeParameter(call'.type, call'.buffer, 0)
    /\ op' = "decodeParameter"
    /\ pc' = "returned"
    /\ UNCHANGED cache

DecodeArray ==
  \E a \in 1..Len(DirectArrays) : \E offset \in {0, WORD} :
    /\ pc = "idle"
    /\ call' = ArrayCall(DirectArrays[a], offset)
    /\ ret' = decodeArray(call'.type, call'.buffer, call'.offset)
    /\ op' = "decodeArray"
    /\ pc' = "returned"
    /\ UNCHANGED cache

DecodeUint ==
  \E bits \in Widths : \E word \in WordsFor(bits) :
    /\ pc = "idle"
    /\ call' = [buffer |-> word, offset |-> 0, bits |-> bits]
    /\ ret' = decodeUint(word, 0, bits)
    /\ op' = "decodeUint"
    /\ pc' = "returned"
    /\ UNCHANGED cache

DecodeInt ==
  \E bits \in Widths : \E word \in WordsFor(bits) :
    /\ pc = "idle"
    /\ call' = [buffer |-> word, offset |-> 0, bits |-> bits]
    /\ ret' = decodeInt(word, 0, bits)
    /\ op' = "decodeInt"
    /\ pc' = "returned"
    /\ UNCHANGED cache

IsDynamicType ==
  \E i \in 1..Len(TypeCatalogue) : \E form \in Forms :
    /\ pc = "idle"
    /\ call' = [type |-> Written(TypeCatalogue[i], form), sty |-> TypeCatalogue[i],
                form |-> form]
    /\ ret' = [err |-> "none", value |-> isDynamicType(Written(TypeCatalogue[i], form))]
    /\ op' = "isDynamicType"
    /\ pc' = "returned"
    /\ UNCHANGED cache

DecodeLog ==
  \E e \in 1..Len(Events) : \E form \in Forms : \E sig \in Signatures :
    \E rest \in TopicLists : \E d \in 1..Len(LogData) :
      /\ pc = "idle"
      /\ Len(rest) <= Len(IndexedOf(Events[e]))
      /\ LET a == LogCall(Events[e], form, sig, rest, d)
         IN  /\ call' = a
             /\ ret' = decodeLog(call'.eventAbi, call'.data, call'.topics)
      /\ op' = "decodeLog"
      /\ pc' = "returned"
      /\ UNCHANGED cache

ParseTupleComponents ==
  \E list \in FieldLists :
    /\ pc = "idle"
    /\ call' = ComponentsCall(list)
    /\ ret' = [err |-> "none",
               value |-> [t |-> "components", items |-> parseTupleComponents(call'.componentStr)]]
    /\ op' = "parseTupleComponents"
    /\ pc' = "returned"
    /\ UNCHANGED cache

GetFunctionSignature ==
  \E name \in DefinitionNames : \E sel \in SigLists :
    /\ pc = "idle"
    /\ call' = SignatureCall(name, sel)
    /\ ret' = [err |-> "none", value |-> StrV(getFunctionSignature(call'.def))]
    /\ op' = "getFunctionSignature"
    /\ pc' = "returned"
    /\ UNCHANGED cache

GetEventSignature ==
  \E name \in DefinitionNames : \E sel \in SigLists :
    /\ pc = "idle"
    /\ call' = SignatureCall(name, sel)
    /\ ret' = [err |-> "none", value |-> StrV(getEventSignature(call'.def))]
    /\ op' = "getEventSignature"
    /\ pc' = "returned"
    /\ UNCHANGED cache

GetFunctionSelector ==
  \E name \in DefinitionNames : \E sel \in SigLists :
    /\ pc = "idle"
    /\ call' = SignatureCall(name, sel)
    /\ ret' = [err |-> "none", value |-> HexV(getFunctionSelector(call'.def))]
    /\ op' = "getFunctionSelector"
    /\ pc' = "returned"
    /\ UNCHANGED cache

GetEventSelector ==
  \E name \in DefinitionNames : \E sel \in SigLists :
    /\ pc = "idle"
    /\ call' = SignatureCall(name, sel)
    /\ ret' = [err |-> "none", value |-> HexV(getEventSelector(call'.def))]
    /\ op' = "getEventSelector"
    /\ pc' = "returned"
    /\ UNCHANGED cache

HexToBuffer ==
  \E digits \in HexStrings : \E prefix \in {<<>>, STR_0x} :
    /\ pc = "idle"
    /\ call' = [hex |-> prefix \o digits, digits |-> digits]
    /\ ret' = [err |-> "none", value |-> hexToBuffer(call'.hex)]
    /\ op' = "hexToBuffer"
    /\ pc' = "returned"
    /\ UNCHANGED cache

BufferToHex ==
  \E b \in ByteBuffers :
    /\ pc = "idle"
    /\ call' = [buffer |-> b]
    /\ ret' = [err |-> "none", value |-> bufferToHex(b)]
    /\ op' = "bufferToHex"
    /\ pc' = "returned"
    /\ UNCHANGED cache

\* The caller takes the result
Done ==
  /\ pc = "returned"
  /\ pc' = "idle"
  /\ op' = "none"
  /\ call' = NoArgs
  /\ ret' = NoResult
  /\ UNCHANGED cache

Next ==
  \/ DecodeParameters
  \/ DecodeParameter
  \/ DecodeArray
  \/ DecodeUint
  \/ DecodeInt
  \/ IsDynamicType
  \/ DecodeLog
  \/ ParseTupleComponents
  \/ GetFunctionSignature
  \/ GetEventSignature
  \/ GetFunctionSelector
  \/ GetEventSelector
  \/ HexToBuffer
  \/ BufferToHex
  \/ Done

Spec == Init /\ [][Next]_vars

(***************************************************************************)
(* Properties                                                              *)
(***************************************************************************)
\* The word of the buffer at position p, as an unsigned big-endian integer
WordAt(buffer, p) == BigNat(SubSeq(buffer, p + 1, p + WORD))

\* decodeParameters was called on the whole encoding of its parameter list
WholeEncoding == op = "decodeParameters" /\ call.choice.kind = "encoded" /\ call.choice.cut = 0

\* C1: round trip. Whenever decodeParameters is given the encoding of a value
\* list laid out by the head/tail rules, it returns that value list.
C1_RoundTrip == WholeEncoding => ret.err = "none" /\ ret.value = ListV(call.vals)

\* C2: decodeUint reads the whole 32-byte word as an unsigned integer, fails
\* with a range error when that integer is at least 2^bits and returns the
\* integer otherwise.
C2_UintRange ==
  op = "decodeUint" =>
    IF BigLess(WordAt(call.buffer, 0), Pow2(call.bits))
    THEN ret.err = "none" /\ ret.value = NumV(WordAt(call.buffer, 0))
    ELSE ret.err = "ValueTooLarge"

\* The signed value of a word: raw - 2^256 when the top bit of the word is set
SignedWord(buffer) ==
  IF BigLess(WordAt(buffer, 0), Pow2(255)) THEN WordAt(buffer, 0)
  ELSE BigSub(WordAt(buffer, 0), Pow2(256))

\* C3: decodeInt takes the two's complement of the 256-bit word, returns the
\* value when it lies in [-2^(bits-1), 2^(bits-1) - 1] and fails with a range
\* error otherwise.
C3_IntRange ==
  op = "decodeInt" =>
    IF BigLess(SignedWord(call.buffer), BigNeg(Pow2(call.bits - 1)))
       \/ BigLess(BigSub(Pow2(call.bits - 1), BigOne), SignedWord(call.buffer))
    THEN ret.err = "ValueOutOfRange"
    ELSE ret.err = "none" /\ ret.value = NumV(SignedWord(call.buffer))

\* C4: decodeParameters never returns a value when one of its reads does not
\* lie wholly inside the buffer.
C4_ReadsInsideBuffer == op = "decodeParameters" => ~(ret.err = "none" /\ ret.oob)

\* C5: isDynamicType answers true exactly for the types that are dynamic by
\* invariant D1, whether the type is written as a string or as an object.
C5_DynamismClosure == op = "isDynamicType" => ret.value = is_dynamic(call.sty)

\* C6: in decodeParameters every parameter is read at the sum of the head
\* widths of the parameters before it.
C6_HeadCursor ==
  op = "decodeParameters" =>
    \A i \in 1..Len(ret.cursors) :
      ret.cursors[i] = SumSeq([j \in 1..(i - 1) |-> head_width(call.sty[j])])

\* The words of a uint256 array whose length slot is at q
WordsAfter(buffer, q) ==
  ListV([i \in 1..NumberOf(WordAt(buffer, q)) |-> NumV(WordAt(buffer, q + WORD * i))])

\* C7: a uint256[] parameter is decoded by reading its head slot once as
\* data_offset, the length L at data_offset, and the L elements from the
\* words that follow the length slot.
C7_DynamicArray ==
  (WholeEncoding /\ Len(call.sty) = 1 /\ call.sty[1] = DynamicArrayT(UintT(256))) =>
    /\ ret.err = "none"
    /\ ret.value = ListV(<<WordsAfter(hexToBuffer(call.data[1]),
                                    NumberOf(WordAt(hexToBuffer(call.data[1]), 0)))>>)

\* The payload of the bytes whose length slot is at q
BytesAfter(buffer, q) ==
  HexV(bufferToHex(SubSeq(buffer, q + WORD + 1, q + WORD + NumberOf(WordAt(buffer, q)))))

\* The dynamic field of type ty parsed at q: bytes, uint256[], or a tuple
\* (bytes, uint256) whose own dynamic field is relative to q
FieldAt(ty, buffer, q) ==
  IF ty.k = "bytes" THEN BytesAfter(buffer, q)
  ELSE IF ty.k = "dynamicarray" THEN WordsAfter(buffer, q)
  ELSE PairValue(ty, BytesAfter(buffer, q + NumberOf(WordAt(buffer, q))),
                 NumV(WordAt(buffer, q + WORD)))

\* C8: the dynamic second field of a tuple decoded at p is parsed at p + r,
\* r being the offset word in the field's head slot.
C8_TupleRelativity ==
  (WholeEncoding /\ Len(call.sty) = 1 /\ call.sty[1].k = "tuple"
     /\ is_dynamic(call.sty[1].fields[2])) =>
    LET buffer == hexToBuffer(call.data[1])
        p == NumberOf(WordAt(buffer, 0))
        r == NumberOf(WordAt(buffer, p + WORD))
    IN  /\ ret.err = "none"
        /\ ret.value.items[1].t = "obj"
        /\ ret.value.items[1].f[FieldKey(call.sty[1], 2)]
             = FieldAt(call.sty[1].fields[2], buffer, p + r)

\* C9: on absent, empty or '0x' data decodeParameters raises no error and
\* returns one null for each type, hence the empty list for no types.
C9_EmptyData ==
  (op = "decodeParameters" /\ call.choice.kind \in {"absent", "empty", "0x"}) =>
    /\ ret.err = "none"
    /\ ret.value = ListV([k \in 1..Len(call.types) |-> NullV])

C9_Witness ==
  /\ op = "decodeParameters"
  /\ call.choice.kind = "0x"
  /\ Len(call.types) = 2
  /\ ret.value = ListV(<<NullV, NullV>>)

\* The data of the call are present and not '0x'
DataPresent == call.data # <<>> /\ call.data[1] # <<>> /\ call.data[1] # STR_0x

\* What decodeLog decodes from the data of the call
DataTaken ==
  decodeParameters([k \in 1..Len(NonIndexedOf(call.event)) |->
                      TS(SelectSeq(call.eventAbi.inputs, LAMBDA input : ~input.indexed)[k].type)],
                   call.data)

\* What the decoder gives for one value of the indexed parameter p in a topic
TopicValue(p, form, topic) == decodeParameters(<<Written(p.ty, form)>>, <<topic>>)

\* The positions (1-based) of the named static indexed parameters with a topic
StaticTopics ==
  { i \in 1..Len(IndexedOf(call.event)) :
      /\ ~is_dynamic(IndexedOf(call.event)[i].ty)
      /\ IndexedOf(call.event)[i].name # <<>>
      /\ i + 1 <= Len(call.topics)
      /\ call.topics[i + 1] # <<>> }

\* The positions (1-based) of the named dynamic indexed parameters with a topic
DynamicTopics ==
  { i \in 1..Len(IndexedOf(call.event)) :
      /\ is_dynamic(IndexedOf(call.event)[i].ty)
      /\ IndexedOf(call.event)[i].name # <<>>
      /\ i + 1 <= Len(call.topics)
      /\ call.topics[i + 1] # <<>> }

\* C10: decodeLog stores, under the name of every static indexed parameter,
\* the value decoded from its topic at offset 0, and topics[0] has no
\* influence on the result.
C10_IndexedStatic ==
  op = "decodeLog" =>
    /\ (/\ \A i \in StaticTopics :
               TopicValue(IndexedOf(call.event)[i], call.form, call.topics[i + 1]).err = "none"
        /\ DynamicTopics = {}
        /\ DataPresent => DataTaken.err = "none")
         => /\ ret.err = "none"
            /\ \A i \in StaticTopics :
                 ret.value.args[IndexedOf(call.event)[i].name]
                   = TopicValue(IndexedOf(call.event)[i], call.form,
                                call.topics[i + 1]).value.items[1]
    /\ \A sig \in Signatures :
         decodeLog(call.eventAbi, call.data, <<sig>> \o Tail(call.topics)) = ret

\* What the decoder gives for the non-indexed parameters of the event, as the
\* event definition describes them, against the data of the call
DataValue ==
  decodeParameters([k \in 1..Len(NonIndexedOf(call.event)) |->
                      Written(NonIndexedOf(call.event)[k].ty, call.form)], call.data)

\* The indexed parameters of the call are decoded without an error
TopicsDecoded ==
  IndexedLoop(SelectSeq(call.eventAbi.inputs, LAMBDA input : input.indexed),
              call.topics, 0, EmptyObj).err = "none"

\* C11: decodeLog decodes the non-indexed parameters, in declaration order,
\* as one parameter list against data, with the result the decoder gives for
\* that list (tuples described by components included), and stores the j-th
\* value under the j-th non-indexed parameter's name.
C11_NonIndexed ==
  (op = "decodeLog" /\ DataPresent /\ TopicsDecoded /\ Len(NonIndexedOf(call.event)) > 0) =>
    /\ ret.err = DataValue.err
    /\ ret.err = "none" =>
         \A j \in 1..Len(NonIndexedOf(call.event)) :
           NonIndexedOf(call.event)[j].name # <<>> =>
             /\ NonIndexedOf(call.event)[j].name \in DOMAIN ret.value.args
             /\ ret.value.args[NonIndexedOf(call.event)[j].name] = DataValue.value.items[j]

\* The value decodeLog decodes from the topic of its i-th indexed parameter
StaticTopic(i) ==
  decodeParameter(TS(SelectSeq(call.eventAbi.inputs, LAMBDA input : input.indexed)[i].type),
                  hexToBuffer(call.topics[i + 1]), 0)

\* C12: for every indexed parameter of a dynamic type (bytes, string, arrays,
\* tuples with a dynamic field, in either form) decodeLog stores the topic's
\* hex string unchanged and does not try to decode it.
C12_IndexedDynamic ==
  (/\ op = "decodeLog"
   /\ \A i \in StaticTopics : StaticTopic(i).err = "none"
   /\ DataPresent => DataTaken.err = "none") =>
    /\ ret.err = "none"
    /\ \A i \in DynamicTopics :
         /\ IndexedOf(call.event)[i].name \in DOMAIN ret.value.args
         /\ ret.value.args[IndexedOf(call.event)[i].name] = HexV(call.topics[i + 1])

\* C13: decodeLog fails with a TopicCount error, and returns no record, when
\* the topics are fewer than the indexed parameters plus one.
C13_TopicCount ==
  (op = "decodeLog" /\ Len(call.topics) < Len(IndexedOf(call.event)) + 1) =>
    ret.err = "TopicCount"

\* The key of the k-th parameter of an event: its name, or field<k-1> when it
\* has none
ParamKey(event, k) ==
  IF event.params[k].name = <<>> THEN STR_field \o IntToStr(k - 1) ELSE event.params[k].name

\* The parameters (1-based) of the event a successful call stores a value for
Stored ==
  { k \in 1..Len(call.event.params) :
      IF call.event.params[k].indexed
      THEN LET i == Cardinality({h \in 1..k : call.event.params[h].indexed})
           IN  i + 1 <= Len(call.topics) /\ call.topics[i + 1] # <<>>
      ELSE DataPresent }

\* C14: decodeLog returns the event's name and a record in which every
\* parameter is keyed by its name, a parameter without a name by field<i>,
\* and nothing is stored under an undefined or empty key.
C14_Keys ==
  (op = "decodeLog" /\ ret.err = "none") =>
    /\ ret.value.name = call.event.name
    /\ DOMAIN ret.value.args = {ParamKey(call.event, k) : k \in Stored}
    /\ STR_undefined \notin DOMAIN ret.value.args
    /\ <<>> \notin DOMAIN ret.value.args

\* The types of the parameters of the definition of the call
ParamTypes == [k \in 1..Len(call.params) |-> call.params[k].ty]

\* C15: getFunctionSignature and getEventSignature return the name followed
\* by the canonical forms of the parameter types in parentheses, a tuple
\* rendered as the parenthesised canonical forms of its components, so that
\* tuples of different component types give different signatures.
C15_CanonicalSignature ==
  op \in {"getFunctionSignature", "getEventSignature"} =>
    ret.value = StrV(signature(call.name, ParamTypes))

\* The parameters (1-based) of the call whose base type is atomic
AtomicParams == { k \in 1..Len(call.params) : BaseOf(call.params[k].ty).k # "tuple" }

\* C16: in a signature the bare types uint and int are rendered as uint256
\* and int256, also as the element type of an array of any dimension, and
\* every other atomic type is rendered as written.
C16_Normalisation ==
  op \in {"getFunctionSignature", "getEventSignature"} =>
    /\ \A k \in AtomicParams :
         /\ getCanonicalType(call.def.inputs[k]) = canonical(call.params[k].ty)
         /\ ~call.params[k].bare => getCanonicalType(call.def.inputs[k]) = call.def.inputs[k].type
    /\ AtomicParams = 1..Len(call.params) => ret.value = StrV(signature(call.name, ParamTypes))

C16_Witness ==
  /\ op = "getEventSignature"
  /\ Len(call.params) = 2
  /\ call.def.inputs[1].type = <<"u", "i", "n", "t", "[", "]", "[", "2", "]">>
  /\ call.def.inputs[2].type = <<"i", "n", "t", "[", "3", "]">>
  /\ ret.value = StrV(call.name \o <<"(", "u", "i", "n", "t", "2", "5", "6", "[", "]", "[", "2", "]", ",", "i", "n", "t", "2", "5", "6", "[", "3", "]", ")">>)

\* The type ty with the fields of its tuples named as mode says: kept,
\* stripped of their names, or renamed
RECURSIVE FieldsNamed(_, _)
FieldsNamed(ty, mode) ==
  IF mode = "keep" THEN ty
  ELSE IF IsArray(ty) THEN [ty EXCEPT !.elem = FieldsNamed(ty.elem, mode)]
  ELSE IF ty.k = "tuple"
  THEN TupleT([i \in 1..Len(ty.fields) |->
                 IF mode = "strip" THEN <<>> ELSE <<NameValue \o IntToStr(i)>>],
              [i \in 1..Len(ty.fields) |-> FieldsNamed(ty.fields[i], mode)])
  ELSE ty

\* The definitions that differ from the definition of the call only in the
\* names of the parameters, the indexed flags and the names of tuple fields
Renamings ==
  { Definition(call.name,
               [k \in 1..Len(call.params) |->
                  SigParam(FieldsNamed(call.params[k].ty, mode), call.params[k].bare)],
               names, flags) :
      names \in [1..Len(call.params) -> {<<>>, <<NameTo>>}],
      flags \in {[k \in 1..Len(call.params) |-> b] : b \in BOOLEAN},
      mode \in {"keep", "strip", "rename"} }

\* The definitions that differ from the definition of the call only in
\* writing uint256 and int256 bare or in full: their canonical signature is
\* the same
Rewritings ==
  { Definition(call.name, [k \in 1..Len(call.params) |-> SigParam(call.params[k].ty, bares[k])],
               [k \in 1..Len(call.params) |-> <<ParamName(k)>>],
               [k \in 1..Len(call.params) |-> k = 1]) :
      bares \in [1..Len(call.params) -> BOOLEAN] }

\* C17: the selector of a function and the topic of an event depend only on
\* the signature: they are the hash of the signature, and a definition that
\* differs only in parameter names, indexed flags, tuple field names or the
\* writing of a type gives the same signature and the same selector or topic.
C17_SelectorStability ==
  /\ op = "getFunctionSignature" =>
       \A d \in Renamings \cup Rewritings : ret.value = StrV(getFunctionSignature(d))
  /\ op = "getEventSignature" =>
       \A d \in Renamings \cup Rewritings : ret.value = StrV(getEventSignature(d))
  /\ op = "getFunctionSelector" =>
       /\ ret.value.s = Slice(keccak256(toUtf8Bytes(getFunctionSignature(call.def))), 0, 10)
       /\ \A d \in Renamings \cup Rewritings : ret.value = HexV(getFunctionSelector(d))
  /\ op = "getEventSelector" =>
       /\ ret.value.s = keccak256(toUtf8Bytes(getEventSignature(call.def)))
       /\ \A d \in Renamings \cup Rewritings : ret.value = HexV(getEventSelector(d))

C17_Witness ==
  /\ op = "getEventSelector"
  /\ Len(call.params) = 2
  /\ call.params[1].ty = NamedPair
  /\ call.params[2] = SigParam(UintT(256), TRUE)
  /\ ret.value
       = HexV(getEventSelector(Definition(call.name,
                                          <<SigParam(DynamicPair, FALSE), SigParam(UintT(256), FALSE)>>,
                                          <<<<>>, <<NameTo>>>>, <<FALSE, TRUE>>)))

\* C18: for a component list whose fields carry optional names,
\* parseTupleComponents yields for each field, in order and the first
\* included, its type as written and its name, or field<i> when it has none.
C18_ComponentNames ==
  op = "parseTupleComponents" =>
    /\ Len(ret.value.items) = Len(call.tuple.fields)
    /\ \A i \in 1..Len(call.tuple.fields) :
         /\ ret.value.items[i].type = TypeString(call.tuple.fields[i])
         /\ ret.value.items[i].name = <<FieldKey(call.tuple, i)>>

\* The errors the decoder throws for a type it cannot read
InvalidType == {"UnsupportedType", "InvalidTupleFormat", "InvalidTupleType"}

\* C19: decoding with a type string that has an unknown base token, an
\* unmatched bracket or parenthesis, or a width or an array length that is
\* no number fails with an invalid-type error and returns no value.
C19_TypeStringErrors ==
  (op = "decodeParameter" /\ call.malformed) => ret.err \in InvalidType

\* What the operation of the call gives for its arguments
Outcome ==
  IF op = "decodeParameters" THEN decodeParameters(call.types, call.data)
  ELSE IF op = "decodeParameter" THEN decodeParameter(call.type, call.buffer, call.offset)
  ELSE IF op = "decodeArray" THEN decodeArray(call.type, call.buffer, call.offset)
  ELSE IF op = "decodeUint" THEN decodeUint(call.buffer, call.offset, call.bits)
  ELSE IF op = "decodeInt" THEN decodeInt(call.buffer, call.offset, call.bits)
  ELSE IF op = "isDynamicType" THEN [err |-> "none", value |-> isDynamicType(call.type)]
  ELSE IF op = "decodeLog" THEN decodeLog(call.eventAbi, call.data, call.topics)
  ELSE IF op = "parseTupleComponents"
  THEN [err |-> "none",
        value |-> [t |-> "components", items |-> parseTupleComponents(call.componentStr)]]
  ELSE IF op = "getFunctionSignature"
  THEN [err |-> "none", value |-> StrV(getFunctionSignature(call.def))]
  ELSE IF op = "getEventSignature"
  THEN [err |-> "none", value |-> StrV(getEventSignature(call.def))]
  ELSE IF op = "getFunctionSelector"
  THEN [err |-> "none", value |-> HexV(getFunctionSelector(call.def))]
  ELSE IF op = "getEventSelector"
  THEN [err |-> "none", value |-> HexV(getEventSelector(call.def))]
  ELSE IF op = "hexToBuffer" THEN [err |-> "none", value |-> hexToBuffer(call.hex)]
  ELSE [err |-> "none", value |-> bufferToHex(call.buffer)]

LowerHex(digits) == [i \in 1..Len(digits) |-> HexDigits[HexVal(digits[i]) + 1]]

\* C21: for an even number of hex digits in either letter case, with or
\* without the prefix 0x, bufferToHex(hexToBuffer(h)) is 0x followed by the
\* digits in lower case; for a buffer b, hexToBuffer(bufferToHex(b)) is b.
C21_HexBoundary ==
  /\ op = "hexToBuffer" =>
       /\ Len(ret.value) * 2 = Len(call.digits)
       /\ bufferToHex(ret.value) = STR_0x \o LowerHex(call.digits)
  /\ op = "bufferToHex" =>
       /\ ret.value = STR_0x \o ToHexString(call.buffer)
       /\ hexToBuffer(ret.value) = call.buffer

C21_Witness ==
  /\ op = "hexToBuffer"
  /\ call.hex = <<"0", "x", "A", "F", "0", "a">>
  /\ ret.value = <<175, 10>>

\* The text whose length slot is at q
TextAfter(buffer, q) ==
  TextV(Utf8Decode(SubSeq(buffer, q + WORD + 1, q + WORD + NumberOf(WordAt(buffer, q)))))

\* decodeArray was called where the array of the call lies: a dynamic array
\* at its head slot, a fixed array of dynamic elements at its element block
ArrayInPlace ==
  /\ op = "decodeArray"
  /\ is_dynamic(call.sty.elem)
  /\ call.offset = IF call.sty.k = "dynamicarray" THEN 0 ELSE NumberOf(WordAt(call.buffer, 0))

\* Where the element block of the array of the call starts, and its length
BlockStart ==
  IF call.sty.k = "dynamicarray" THEN NumberOf(WordAt(call.buffer, call.offset)) + WORD
  ELSE call.offset

BlockLength ==
  IF call.sty.k = "dynamicarray" THEN NumberOf(WordAt(call.buffer, BlockStart - WORD))
  ELSE call.sty.n

\* C22: an array with dynamic elements is decoded by the recursive-relative
\* rule: element i is parsed at s + r_i, s being the start of the element
\* block and r_i the offset word at s + 32 * i.
C22_ElementRelativity ==
  (ArrayInPlace /\ call.sty.elem.k \in {"bytes", "string"}) =>
    /\ ret.err = "none"
    /\ ret.value
         = ListV([i \in 1..BlockLength |->
                    LET q == BlockStart + NumberOf(WordAt(call.buffer, BlockStart + WORD * (i - 1)))
                    IN  IF call.sty.elem.k = "bytes" THEN BytesAfter(call.buffer, q)
                        ELSE TextAfter(call.buffer, q)])

\* decodeArray was called on an array of arrays, where it lies
NestedInPlace ==
  /\ op = "decodeArray"
  /\ IsArray(call.sty.elem)
  /\ call.offset = IF is_dynamic(call.sty) /\ call.sty.k = "fixedarray"
                   THEN NumberOf(WordAt(call.buffer, 0)) ELSE 0

\* C23: for an array of arrays decodeArray takes the last bracket pair as the
\* outer dimension and returns a list of the outer length whose entries are
\* the decoded inner arrays; uint256[2][3] is 3 lists of 2 integers read
\* from 6 consecutive words.
C23_NestedArrays ==
  NestedInPlace =>
    /\ ret.err = "none"
    /\ ret.value.t = "list"
    /\ ret.value.rep = 0
    /\ Len(ret.value.items) = Len(call.val.items)
    /\ \A i \in 1..Len(ret.value.items) :
         /\ ret.value.items[i].t = "list"
         /\ ~is_dynamic(call.sty) => ret.value.items[i] = call.val.items[i]

\* C24: parseTupleComponents splits the component string only at the commas
\* at depth 0: it returns one component for each top-level field, and the
\* component of a nested tuple keeps the tuple's whole parenthesised text.
C24_BracketDepth ==
  op = "parseTupleComponents" =>
    /\ Len(ret.value.items) = Len(call.tuple.fields)
    /\ \A i \in 1..Len(call.tuple.fields) :
         call.tuple.fields[i].k = "tuple" =>
           ret.value.items[i].type = TypeString(call.tuple.fields[i])

\* decodeParameters was called on the whole encoding of one string
StringCall == WholeEncoding /\ Len(call.sty) = 1 /\ call.sty[1] = StringT

\* C25: a string whose payload is the UTF-8 encoding of a text is decoded to
\* that text, with no character added, removed or replaced: white space at
\* its ends and NUL characters are kept.
C25_TextUnchanged ==
  StringCall =>
    /\ ret.err = "none"
    /\ ret.value = ListV(<<call.vals[1]>>)
    /\ ret.value.items[1] = TextAfter(hexToBuffer(call.data[1]),
                                      NumberOf(WordAt(hexToBuffer(call.data[1]), 0)))

\* The inputs of the event of the call have distinct names, none empty
DistinctNames ==
  /\ \A k \in 1..Len(call.event.params) : call.event.params[k].name # <<>>
  /\ \A k, h \in 1..Len(call.event.params) :
       k # h => call.event.params[k].name # call.event.params[h].name

\* C26: when decodeLog returns for an event whose inputs have distinct,
\* non-empty names, args has exactly one entry for each input of the event,
\* whatever the topics and the data are.
C26_CompleteLog ==
  (op = "decodeLog" /\ ret.err = "none" /\ DistinctNames) =>
    DOMAIN ret.value.args = { call.event.params[k].name : k \in 1..Len(call.event.params) }

====
